---------------------------- MODULE Spec2Model ----------------------------
(***************************************************************************)
(* Model of the SetOptions operation builder of exp/txnbuild.              *)
(*                                                                         *)
(* The source holds several development snapshots of the builder; the      *)
(* model follows the most complete one (the SetOptions struct with the     *)
(* threshold, home-domain and signer handlers), which is the text at       *)
(* src/exp/txnbuild/set_options_test.go:70-256.                            *)
(*                                                                         *)
(* Representation.                                                         *)
(*   - A Go pointer / optional is a sequence: Nil (<<>>) is the nil        *)
(*     pointer, Ptr(v) (<<v>>) a non-nil pointer whose pointee is v.       *)
(*   - so.xdrOp.InflationDest is the one pointer that aliases storage of   *)
(*     the builder: it holds &so.destAccountID, modelled by the reference  *)
(*     RefDestAccountID, whose pointee is read from the builder.           *)
(*   - An address / key is a string; a home domain is the sequence of the  *)
(*     UTF-8 byte widths of its characters, so that Go's len() (bytes) and *)
(*     the number of characters are both available.                        *)
(*   - An error is Nil (no error) or a sequence of messages, outermost     *)
(*     wrapper first.                                                      *)
(*   - A weight / threshold slot holds the very pointer the caller put in  *)
(*     the request; the caller here only ever assigns a new pointer        *)
(*     (nil or NewThreshold(v)) and never writes through one, so the slot  *)
(*     is modelled by its pointee.                                         *)
(*   - BuildXDR that hits the nil dereference of handleSigner does not     *)
(*     return: its status is "panic", and the builder keeps what the       *)
(*     handlers before it wrote.                                           *)
(***************************************************************************)
EXTENDS Integers, Sequences, FiniteSets, TLC

VARIABLES
    so,        \* the builder: the SetOptions struct, request fields and accumulator
    ret,       \* what the caller got from the latest BuildXDR call
    calls,     \* number of caller operations so far (bounds the exploration)
    builds     \* number of BuildXDR calls since the caller last assigned a request field

vars == <<so, ret, calls, builds>>

----------------------------------------------------------------------------
(* Bounds of the exploration. *)

MaxCalls == 5

MaxFlagLen == 3

----------------------------------------------------------------------------
(* Pointers and optionals. *)

Nil == <<>>

Ptr(v) == <<v>>

Deref(p) == p[1]

RefDestAccountID == <<"&so.destAccountID">>

----------------------------------------------------------------------------
(* xdr.Uint32 and the bitwise OR of Go. *)

RECURSIVE BitOr(_, _)
BitOr(a, b) ==
    IF a = 0 THEN b
    ELSE IF b = 0 THEN a
    ELSE (IF a % 2 = 1 \/ b % 2 = 1 THEN 1 ELSE 0) + 2 * BitOr(a \div 2, b \div 2)

\* xdr.Uint32(v) for v an AccountFlag (uint32) or a uint8: the conversion is to
\* a type at least as wide, so the value is kept; and | of two 32-bit values
\* is a 32-bit value, so nothing wraps.
Uint32(v) == v

----------------------------------------------------------------------------
(* The address codec (xdr.AccountId.SetAddress / xdr.SignerKey.SetAddress). *)

ValidAddresses == {"GA", "GB"}

InvalidAddressError == <<"invalid address">>

AddressKey(address) ==
    CASE address = "GA" -> "keyA"
      [] address = "GB" -> "keyB"

ZeroKey == "keyZero"

\* SetAddress on a receiver holding `old`: the key afterwards and the error.
\* A text the codec rejects yields no key, and the receiver keeps its value.
SetAddress(old, address) ==
    IF address \in ValidAddresses
    THEN [key |-> AddressKey(address), err |-> Nil]
    ELSE [key |-> old, err |-> InvalidAddressError]

----------------------------------------------------------------------------
(* errors.New / errors.Wrap. *)

ErrorsNew(msg) == <<msg>>

ErrorsWrap(err, msg) == <<msg>> \o err

----------------------------------------------------------------------------
(* Threshold, Signer, SetOptions. *)

NewThreshold(t) == Ptr(Uint32(t))

ZeroSigner == [Address |-> "", Weight |-> Nil]

ZeroSetOptionsOp ==
    [ InflationDest |-> Nil, ClearFlags |-> Nil, SetFlags |-> Nil,
      MasterWeight |-> Nil, LowThreshold |-> Nil, MedThreshold |-> Nil,
      HighThreshold |-> Nil, HomeDomain |-> Nil, Signer |-> Nil ]

ZeroSetOptions ==
    [ destAccountID        |-> ZeroKey,
      InflationDestination |-> "",
      SetAuthorization     |-> <<>>,
      ClearAuthorization   |-> <<>>,
      MasterWeight         |-> Nil,
      LowThreshold         |-> Nil,
      MediumThreshold      |-> Nil,
      HighThreshold        |-> Nil,
      HomeDomain           |-> <<>>,
      Signer               |-> ZeroSigner,
      xdrOp                |-> ZeroSetOptionsOp ]

----------------------------------------------------------------------------
(* Strings of the home domain. *)

MaxHomeDomainLen == 32

\* Go's len(string): the number of bytes.
ByteLen(str) ==
    LET RECURSIVE Sum(_)
        Sum(i) == IF i = 0 THEN 0 ELSE str[i] + Sum(i - 1)
    IN  Sum(Len(str))

\* The number of characters of a string.
CharLen(str) == Len(str)

\* xdr.String32(str): a conversion of the named string type, content kept.
String32(str) == str

----------------------------------------------------------------------------
(* The field handlers.  Each takes the builder and gives the builder       *)
(* afterwards; the ones that can fail give [so, err], and handleSigner,    *)
(* which dereferences so.Signer.Weight, gives [so, err, panic].            *)

handleInflation(s) ==
    IF s.InflationDestination # ""
    THEN LET r == SetAddress(s.destAccountID, s.InflationDestination)
         IN  IF r.err # Nil
             THEN [so |-> [s EXCEPT !.destAccountID = r.key], err |-> r.err]
             ELSE [so |-> [s EXCEPT !.destAccountID = r.key,
                                    !.xdrOp.InflationDest = RefDestAccountID],
                   err |-> Nil]
    ELSE [so |-> s, err |-> Nil]

\* mergeFlags with the flags added up instead of OR-ed.
RECURSIVE mergeFlagsSum(_)
mergeFlagsSum(auth) ==
    IF auth = <<>> THEN 0
    ELSE mergeFlagsSum(SubSeq(auth, 1, Len(auth) - 1)) + Uint32(auth[Len(auth)])

\* The loop of handleSetFlags / handleClearFlags: flags = flags | xdr.Uint32(flag).
RECURSIVE mergeFlags(_)
mergeFlags(auth) ==
    IF auth = <<>> THEN 0
    ELSE BitOr(mergeFlags(SubSeq(auth, 1, Len(auth) - 1)), Uint32(auth[Len(auth)]))

handleSetFlags(s) ==
    LET flags == mergeFlags(s.SetAuthorization)
    IN  IF Len(s.SetAuthorization) > 0
        THEN [s EXCEPT !.xdrOp.SetFlags = Ptr(flags)]
        ELSE s

handleClearFlags(s) ==
    LET flags == mergeFlags(s.ClearAuthorization)
    IN  IF Len(s.ClearAuthorization) > 0
        THEN [s EXCEPT !.xdrOp.ClearFlags = Ptr(flags)]
        ELSE s

handleMasterWeight(s) ==
    IF s.MasterWeight # Nil
    THEN [s EXCEPT !.xdrOp.MasterWeight = s.MasterWeight]
    ELSE s

handleLowThreshold(s) ==
    IF s.LowThreshold # Nil
    THEN [s EXCEPT !.xdrOp.LowThreshold = s.LowThreshold]
    ELSE s

handleMediumThreshold(s) ==
    IF s.MediumThreshold # Nil
    THEN [s EXCEPT !.xdrOp.MedThreshold = s.MediumThreshold]
    ELSE s

handleHighThreshold(s) ==
    IF s.HighThreshold # Nil
    THEN [s EXCEPT !.xdrOp.HighThreshold = s.HighThreshold]
    ELSE s

\* handleHomeDomain refusing to overwrite a slot an earlier Build filled.
handleHomeDomainOnce(s) ==
    IF s.HomeDomain # <<>>
    THEN IF ByteLen(s.HomeDomain) > MaxHomeDomainLen \/ s.xdrOp.HomeDomain # Nil
         THEN [so |-> s, err |-> ErrorsNew("HomeDomain must be 32 characters or less")]
         ELSE [so |-> [s EXCEPT !.xdrOp.HomeDomain = Ptr(String32(s.HomeDomain))],
               err |-> Nil]
    ELSE [so |-> s, err |-> Nil]

handleHomeDomain(s) ==
    IF s.HomeDomain # <<>>
    THEN IF ByteLen(s.HomeDomain) > MaxHomeDomainLen
         THEN [so |-> s, err |-> ErrorsNew("HomeDomain must be 32 characters or less")]
         ELSE [so |-> [s EXCEPT !.xdrOp.HomeDomain = Ptr(String32(s.HomeDomain))],
               err |-> Nil]
    ELSE [so |-> s, err |-> Nil]

handleSigner(s) ==
    IF s.Signer # ZeroSigner
    THEN IF s.Signer.Weight = Nil
         THEN \* *so.Signer.Weight on a nil pointer: run-time panic
              [so |-> s, err |-> Nil, panic |-> TRUE]
         ELSE LET r == SetAddress(ZeroKey, s.Signer.Address)
              IN  IF r.err # Nil
                  THEN [so |-> s, err |-> r.err, panic |-> FALSE]
                  ELSE [so |-> [s EXCEPT !.xdrOp.Signer =
                                    Ptr([Key |-> r.key, Weight |-> Deref(s.Signer.Weight)])],
                        err |-> Nil, panic |-> FALSE]
    ELSE [so |-> s, err |-> Nil, panic |-> FALSE]

----------------------------------------------------------------------------
(* xdr.Operation and BuildXDR. *)

EmptyOperation == [Body |-> [Type |-> "zero", SetOptionsOp |-> Nil]]

\* xdr.NewOperationBody(xdr.OperationTypeSetOptions, op): the body holds a
\* pointer to a copy of the struct op, whose pointer fields are copied as
\* pointers.  It fails only for a value that is not a SetOptionsOp.
NewOperationBody(opType, op) ==
    [body |-> [Type |-> opType, SetOptionsOp |-> Ptr(op)], err |-> Nil]

OperationTypeSetOptions == "OperationTypeSetOptions"

\* Failed returning the record as far as the handlers filled it.
FailedPartial(s, err) ==
    [so |-> s, status |-> "error",
     op |-> [Body |-> NewOperationBody(OperationTypeSetOptions, s.xdrOp).body],
     err |-> err]

Failed(s, err) == [so |-> s, status |-> "error", op |-> EmptyOperation, err |-> err]

Panicked(s) == [so |-> s, status |-> "panic", op |-> EmptyOperation, err |-> Nil]

\* BuildXDR on the builder s: the builder afterwards, how the call ended
\* ("ok", "error", or "panic" when it did not return), and the values returned.
BuildXDR(s) ==
    LET r1 == handleInflation(s) IN
    IF r1.err # Nil
    THEN Failed(r1.so, ErrorsWrap(r1.err, "Failed to set inflation destination address"))
    ELSE
    LET s2 == handleClearFlags(r1.so)
        s3 == handleSetFlags(s2)
        s4 == handleMasterWeight(s3)
        s5 == handleLowThreshold(s4)
        s6 == handleMediumThreshold(s5)
        s7 == handleHighThreshold(s6)
        r8 == handleHomeDomain(s7)
    IN
    IF r8.err # Nil
    THEN Failed(r8.so, ErrorsWrap(r8.err, "Failed to set home domain"))
    ELSE
    LET r9 == handleSigner(r8.so) IN
    IF r9.panic
    THEN Panicked(r9.so)
    ELSE IF r9.err # Nil
    THEN Failed(r9.so, ErrorsWrap(r9.err, "Failed to set signer"))
    ELSE
    LET b == NewOperationBody(OperationTypeSetOptions, r9.so.xdrOp) IN
    IF b.err # Nil
    THEN Failed(r9.so, ErrorsWrap(b.err, "Failed to build XDR OperationBody"))
    ELSE [so |-> r9.so, status |-> "ok", op |-> [Body |-> b.body], err |-> Nil]

----------------------------------------------------------------------------
(* The values the caller gives the request fields. *)

InflationDestinations == {""} \cup ValidAddresses \cup {"bad"}

FlagValues == {0, 1, 2, 3, 4, 8}

FlagSeqs == UNION {[1..n -> FlagValues] : n \in 0..MaxFlagLen}

AssignedFlagSeqs == {<<>>, <<0>>, <<1, 2, 4>>}

Thresholds == {Nil, NewThreshold(0), NewThreshold(255)}

\* A string of n characters, each w bytes wide.
Repeat(n, w) == [i \in 1..n |-> w]

HomeDomains ==
    { <<>>,
      Repeat(1, 1),
      Repeat(MaxHomeDomainLen, 1),
      Repeat(MaxHomeDomainLen + 1, 1),
      Repeat(MaxHomeDomainLen \div 2 + 1, 2) }

Signers == [Address : {"", "GA", "bad"}, Weight : {Nil, NewThreshold(0), NewThreshold(1)}]

----------------------------------------------------------------------------
(* The caller: SetOptions{} , assignments to the exported fields, BuildXDR. *)

NoReturn == [status |-> "none", op |-> EmptyOperation, err |-> Nil]

Init ==
    /\ so = ZeroSetOptions
    /\ ret = NoReturn
    /\ calls = 0
    /\ builds = 0

\* so.<field> = v, for a value other than the one the field holds.
AssignInflationDestination ==
    \E v \in InflationDestinations :
        /\ calls < MaxCalls
        /\ so.InflationDestination # v
        /\ so' = [so EXCEPT !.InflationDestination = v]
        /\ calls' = calls + 1
        /\ builds' = 0
        /\ UNCHANGED ret

AssignSetAuthorization ==
    \E v \in AssignedFlagSeqs :
        /\ calls < MaxCalls
        /\ so.SetAuthorization # v
        /\ so' = [so EXCEPT !.SetAuthorization = v]
        /\ calls' = calls + 1
        /\ builds' = 0
        /\ UNCHANGED ret

AssignClearAuthorization ==
    \E v \in AssignedFlagSeqs :
        /\ calls < MaxCalls
        /\ so.ClearAuthorization # v
        /\ so' = [so EXCEPT !.ClearAuthorization = v]
        /\ calls' = calls + 1
        /\ builds' = 0
        /\ UNCHANGED ret

AssignMasterWeight ==
    \E v \in Thresholds :
        /\ calls < MaxCalls
        /\ so.MasterWeight # v
        /\ so' = [so EXCEPT !.MasterWeight = v]
        /\ calls' = calls + 1
        /\ builds' = 0
        /\ UNCHANGED ret

AssignLowThreshold ==
    \E v \in Thresholds :
        /\ calls < MaxCalls
        /\ so.LowThreshold # v
        /\ so' = [so EXCEPT !.LowThreshold = v]
        /\ calls' = calls + 1
        /\ builds' = 0
        /\ UNCHANGED ret

AssignMediumThreshold ==
    \E v \in Thresholds :
        /\ calls < MaxCalls
        /\ so.MediumThreshold # v
        /\ so' = [so EXCEPT !.MediumThreshold = v]
        /\ calls' = calls + 1
        /\ builds' = 0
        /\ UNCHANGED ret

AssignHighThreshold ==
    \E v \in Thresholds :
        /\ calls < MaxCalls
        /\ so.HighThreshold # v
        /\ so' = [so EXCEPT !.HighThreshold = v]
        /\ calls' = calls + 1
        /\ builds' = 0
        /\ UNCHANGED ret

AssignHomeDomain ==
    \E v \in HomeDomains :
        /\ calls < MaxCalls
        /\ so.HomeDomain # v
        /\ so' = [so EXCEPT !.HomeDomain = v]
        /\ calls' = calls + 1
        /\ builds' = 0
        /\ UNCHANGED ret

AssignSigner ==
    \E v \in Signers :
        /\ calls < MaxCalls
        /\ so.Signer # v
        /\ so' = [so EXCEPT !.Signer = v]
        /\ calls' = calls + 1
        /\ builds' = 0
        /\ UNCHANGED ret

\* so.BuildXDR()
Build ==
    /\ calls < MaxCalls
    /\ LET r == BuildXDR(so)
       IN  /\ so' = r.so
           /\ ret' = [status |-> r.status, op |-> r.op, err |-> r.err]
    /\ calls' = calls + 1
    /\ builds' = builds + 1

Next ==
    \/ AssignInflationDestination
    \/ AssignSetAuthorization
    \/ AssignClearAuthorization
    \/ AssignMasterWeight
    \/ AssignLowThreshold
    \/ AssignMediumThreshold
    \/ AssignHighThreshold
    \/ AssignHomeDomain
    \/ AssignSigner
    \/ Build

Spec == Init /\ [][Next]_vars

----------------------------------------------------------------------------
(* The flag handlers called on their own, as the unit tests call them, on a *)
(* builder constructed with the two flag sequences.                         *)

Reverse(s) == [i \in 1..Len(s) |-> s[Len(s) + 1 - i]]

InitFlags ==
    /\ \E s \in FlagSeqs, t \in FlagSeqs :
          /\ s = <<>> \/ t = <<>> \/ t = Reverse(s)
          /\ so = [ZeroSetOptions EXCEPT !.SetAuthorization = s,
                                         !.ClearAuthorization = t]
    /\ ret = NoReturn
    /\ calls = 0
    /\ builds = 0

CallHandleSetFlags ==
    /\ so' = handleSetFlags(so)
    /\ UNCHANGED <<ret, calls, builds>>

CallHandleClearFlags ==
    /\ so' = handleClearFlags(so)
    /\ UNCHANGED <<ret, calls, builds>>

NextFlags == CallHandleSetFlags \/ CallHandleClearFlags

SpecFlags == InitFlags /\ [][NextFlags]_vars

----------------------------------------------------------------------------
(* Vocabulary of the properties. *)

FlagBits == 4

Range(s) == {s[i] : i \in 1..Len(s)}

\* The bitwise OR of a set of values, bit by bit: bit i is set iff some value has it.
OrOfSet(S) ==
    LET Bit(v, i) == (v \div (2 ^ i)) % 2
        RECURSIVE Sum(_)
        Sum(i) == IF i < 0 THEN 0
                  ELSE (IF \E v \in S : Bit(v, i) = 1 THEN 2 ^ i ELSE 0) + Sum(i - 1)
    IN  Sum(FlagBits - 1)

\* ret is what BuildXDR returned for the request fields the builder holds now.
Returned == builds > 0

\* The SetOptionsOp a successfully returned operation points to.
Slots(op) == Deref(op.Body.SetOptionsOp)

\* What a reader of the operation op sees while the builder is s: the slots,
\* the inflation destination read through the pointer into the builder.
Content(op, s) ==
    IF op.Body.SetOptionsOp = Nil
    THEN Nil
    ELSE Ptr([Slots(op) EXCEPT !.InflationDest =
                 IF @ = Nil THEN Nil ELSE Ptr(s.destAccountID)])

\* A newly created builder holding the request fields of s: SetOptions{...}.
Fresh(s) == [s EXCEPT !.xdrOp = ZeroSetOptionsOp, !.destAccountID = ZeroKey]

InflationFails(s) ==
    s.InflationDestination # "" /\ s.InflationDestination \notin ValidAddresses

HomeDomainFails(s) == ByteLen(s.HomeDomain) > MaxHomeDomainLen

SignerAddressFails(s) ==
    s.Signer # ZeroSigner /\ s.Signer.Address \notin ValidAddresses

SignerValid(s) ==
    s.Signer.Address \in ValidAddresses /\ s.Signer.Weight # Nil

InflationError ==
    <<"Failed to set inflation destination address">> \o InvalidAddressError

HomeDomainError ==
    <<"Failed to set home domain", "HomeDomain must be 32 characters or less">>

SignerError == <<"Failed to set signer">> \o InvalidAddressError

----------------------------------------------------------------------------
(* C1: after every successful Build, also one that follows earlier Builds   *)
(* between which the caller changed or cleared fields, each slot of the     *)
(* record is present iff the request field is non-empty / non-nil.          *)
C1_PresentIffRequested ==
    (Returned /\ ret.status = "ok") =>
        LET x == Slots(ret.op) IN
        /\ (x.InflationDest # Nil) <=> (so.InflationDestination # "")
        /\ (x.ClearFlags # Nil) <=> (so.ClearAuthorization # <<>>)
        /\ (x.SetFlags # Nil) <=> (so.SetAuthorization # <<>>)
        /\ (x.MasterWeight # Nil) <=> (so.MasterWeight # Nil)
        /\ (x.LowThreshold # Nil) <=> (so.LowThreshold # Nil)
        /\ (x.MedThreshold # Nil) <=> (so.MediumThreshold # Nil)
        /\ (x.HighThreshold # Nil) <=> (so.HighThreshold # Nil)
        /\ (x.HomeDomain # Nil) <=> (so.HomeDomain # <<>>)
        /\ (x.Signer # Nil) <=> (so.Signer # ZeroSigner)

(* C2: for every non-empty flag sequence the stored mask is the bitwise OR  *)
(* of the set of its distinct values, so that every sequence with the same  *)
(* set of values (a reordering, a repetition) gives the same mask, and bits *)
(* outside {1, 2, 4} are kept.                                              *)
C2_MaskIsOrOfDistinctValues ==
    LET s == so.SetAuthorization
        c == so.ClearAuthorization
    IN  /\ s # <<>> => handleSetFlags(so).xdrOp.SetFlags # Nil
        /\ c # <<>> => handleClearFlags(so).xdrOp.ClearFlags # Nil
        /\ so.xdrOp.SetFlags # Nil =>
              /\ so.xdrOp.SetFlags = Ptr(OrOfSet(Range(s)))
              /\ \A t \in FlagSeqs :
                    Range(t) = Range(s) => Ptr(mergeFlags(t)) = so.xdrOp.SetFlags
        /\ so.xdrOp.ClearFlags # Nil =>
              /\ so.xdrOp.ClearFlags = Ptr(OrOfSet(Range(c)))
              /\ \A t \in FlagSeqs :
                    Range(t) = Range(c) => Ptr(mergeFlags(t)) = so.xdrOp.ClearFlags

C2_Witness ==
    /\ so.SetAuthorization = <<1, 2, 4>>
    /\ so.ClearAuthorization = <<4, 2, 1>>
    /\ so.xdrOp.SetFlags = Ptr(7)
    /\ so.xdrOp.ClearFlags = Ptr(7)

(* C3: a provided zero is never taken for absent: after a successful Build  *)
(* a flag slot is present with the OR mask (also mask 0) iff the sequence   *)
(* is non-empty and absent for the empty sequence, and the master weight    *)
(* and each threshold slot is present with exactly the provided value (also *)
(* 0) when provided and absent when unset.                                  *)
C3_ZeroIsNotAbsent ==
    (Returned /\ ret.status = "ok") =>
        LET x == Slots(ret.op)
            Mask(auth) == IF auth = <<>> THEN Nil ELSE Ptr(OrOfSet(Range(auth)))
        IN
        /\ x.SetFlags = Mask(so.SetAuthorization)
        /\ x.ClearFlags = Mask(so.ClearAuthorization)
        /\ x.MasterWeight = so.MasterWeight
        /\ x.LowThreshold = so.LowThreshold
        /\ x.MedThreshold = so.MediumThreshold
        /\ x.HighThreshold = so.HighThreshold

(* C4: with the other fields valid, Build on a non-empty home domain        *)
(* succeeds and stores it iff it has at most 32 characters; with more it    *)
(* fails with the home domain error and gives no record.                    *)
C4_HomeDomainByCharacters ==
    ( /\ Returned
      /\ so.HomeDomain # <<>>
      /\ ~InflationFails(so)
      /\ so.Signer = ZeroSigner \/ SignerValid(so) ) =>
        IF CharLen(so.HomeDomain) <= MaxHomeDomainLen
        THEN /\ ret.status = "ok"
             /\ Slots(ret.op).HomeDomain = Ptr(so.HomeDomain)
        ELSE /\ ret.status = "error"
             /\ ret.err = HomeDomainError
             /\ ret.op = EmptyOperation

(* C5: a failing Build returns the error of the first failing field in the  *)
(* order inflation destination, home domain, signer, wrapped with that      *)
(* field's message, together with the empty operation.                      *)
C5_FirstFailingField ==
    Returned =>
        /\ InflationFails(so) =>
              ret.status = "error" /\ ret.err = InflationError
        /\ (~InflationFails(so) /\ HomeDomainFails(so)) =>
              ret.status = "error" /\ ret.err = HomeDomainError
        /\ ( /\ ~InflationFails(so) /\ ~HomeDomainFails(so)
             /\ SignerAddressFails(so) /\ so.Signer.Weight # Nil ) =>
              ret.status = "error" /\ ret.err = SignerError
        /\ ret.status = "error" =>
              /\ ret.op = EmptyOperation
              /\ InflationFails(so) \/ HomeDomainFails(so) \/ SignerAddressFails(so)

C5_Witness ==
    /\ Returned
    /\ ~InflationFails(so) /\ HomeDomainFails(so) /\ SignerAddressFails(so)
    /\ ret.status = "error"
    /\ ret.err = HomeDomainError
    /\ ret.op = EmptyOperation
    /\ so.xdrOp.InflationDest # Nil

(* C6: what Build returns depends on the request fields alone: it is what   *)
(* Build returns on a newly created builder holding the same field values.  *)
C6_SameAsOnNewBuilder ==
    Returned =>
        LET r == BuildXDR(Fresh(so)) IN
        /\ ret.status = r.status
        /\ ret.err = r.err
        /\ Content(ret.op, so) = Content(r.op, r.so)

(* C7: no later operation on the builder changes what a record returned by  *)
(* a successful Build holds, the inflation destination key included.        *)
C7_ReturnedRecordImmutable ==
    [][ret.status = "ok" => Content(ret.op, so') = Content(ret.op, so)]_vars

(* C8: the default signer pair leaves the signer slot absent, and a signer  *)
(* with a valid address and a provided weight (0 included) makes Build      *)
(* succeed, the other fields being valid, with the slot holding the key of  *)
(* the address paired with that weight.                                     *)
C8_SignerSlot ==
    (Returned /\ ~InflationFails(so) /\ ~HomeDomainFails(so)) =>
        /\ so.Signer = ZeroSigner =>
              ret.status = "ok" /\ Slots(ret.op).Signer = Nil
        /\ SignerValid(so) =>
              /\ ret.status = "ok"
              /\ Slots(ret.op).Signer =
                    Ptr([Key |-> AddressKey(so.Signer.Address),
                         Weight |-> Deref(so.Signer.Weight)])

(* C9: a Build that directly follows a Build, with no assignment to the     *)
(* request in between, ends the same way with the same error, and after a   *)
(* successful Build it returns a record identical, slot for slot, to the    *)
(* first one, which it leaves as it was.                                    *)
C9_RebuildIdentical ==
    [][(builds > 0 /\ builds' = builds + 1) =>
          /\ ret'.status = ret.status
          /\ ret'.err = ret.err
          /\ Content(ret'.op, so') = Content(ret.op, so)
          /\ Content(ret.op, so') = Content(ret.op, so)]_vars

C9_Witness ==
    /\ builds = 2
    /\ ret.status = "ok"
    /\ Slots(ret.op).InflationDest # Nil
    /\ Slots(ret.op).HomeDomain # Nil

(* C10: Build always terminates by returning a record or an error, also for *)
(* a signer with an address and no weight; and a signer with an invalid     *)
(* address gives the signer error whether or not it has a weight.           *)
C10_BuildTotal ==
    /\ ret.status \in {"none", "ok", "error"}
    /\ ( /\ Returned
         /\ ~InflationFails(so) /\ ~HomeDomainFails(so)
         /\ SignerAddressFails(so) ) =>
            ret.status = "error" /\ ret.err = SignerError

============================================================================
